---------------------------- MODULE Spec2Model ----------------------------
(***************************************************************************)
(* liftOver - Move annotations from one assembly to another.               *)
(*                                                                         *)
(* Part 1 models the command-line dispatcher src/hg/liftOver/liftOver.c:   *)
(* main() and liftOver(), statement by statement, with the option hash     *)
(* built by optionInit as the input.                                       *)
(* Part 2 models the single-interval liftover engine (chain index,         *)
(* interval transform, resolver, ends mode) that the record adapters call. *)
(***************************************************************************)
EXTENDS Integers, Sequences, FiniteSets, TLC

VARIABLES
    pc,        \* position in main() / liftOver()
    options,   \* the option hash built by optionInit: a set of <<name, value>>
    argc,      \* argc after optionInit removed the options
    g,         \* the file-scope globals (lines 17-25)
    m,         \* main()'s locals (lines 186-192)
    lo,        \* liftOver()'s parameters, once it is entered
    io,        \* chain map, output files and adapter calls made so far
    adapter,   \* the record adapter called, with the arguments it was given
    exit,      \* how the process ended
    epc,       \* engine: position of one liftInterval call
    chainMap,  \* engine: the loaded chains
    interval,  \* engine: the input interval
    config,    \* engine: the configuration
    candidates,\* engine: the chains the index query returned
    result     \* engine: the LiftResult

dvars == <<pc, options, argc, g, m, lo, io, adapter, exit>>
evars == <<epc, chainMap, interval, config, candidates, result>>
vars == <<pc, options, argc, g, m, lo, io, adapter, exit,
          epc, chainMap, interval, config, candidates, result>>

(***************************************************************************)
(* Bounds                                                                  *)
(***************************************************************************)
\* at most this many options on one command line
MaxOpts == 3
\* at most this many chains in the chain file
MaxChains == 2
\* input intervals lie in [0, MaxCoord)
MaxCoord == 10

(***************************************************************************)
(* Part 1: the dispatcher                                                  *)
(***************************************************************************)

\* liftOver.h defaults, in hundredths (0.95 and 1.00)
LIFTOVER_MINMATCH == 95
LIFTOVER_MINBLOCKS == 100

BoolOptions == {"errorHelp", "fudgeThick", "genePred", "gff", "hasBin",
                "multiple", "noSerial", "positions", "pslT", "sample",
                "tab", "tabSep", "preserveInput"}

\* the values tried for each valued option; floats are in hundredths
OptionValues(name) ==
    CASE name = "bedPlus"    -> {2, 4, 16}
      [] name = "chainTable" -> {1}
      [] name = "minBlocks"  -> {-5, 50, 150}
      [] name = "minChainQ"  -> {4}
      [] name = "minChainT"  -> {0, 7}
      [] name = "minMatch"   -> {-5, 50, 150}
      [] name = "minSizeQ"   -> {3}
      [] name = "minSizeT"   -> {0, 5}
      [] name = "ends"       -> {0, 20}
      [] OTHER               -> {1}

ValuedOptions == {"bedPlus", "chainTable", "minBlocks", "minChainQ",
                  "minChainT", "minMatch", "minSizeQ", "minSizeT", "ends"}

optionSpecs == BoolOptions \cup ValuedOptions

OptionTokens == UNION {{<<n, v>> : v \in OptionValues(n)} : n \in optionSpecs}

RECURSIVE TokenSets(_)
TokenSets(k) ==
    IF k = 0 THEN {{}}
    ELSE LET prev == TokenSets(k - 1)
         IN  prev \cup {p \cup {t} : p \in prev, t \in OptionTokens}

\* the hashes optionInit can build: each option at most once
OptionHashes ==
    {h \in TokenSets(MaxOpts) : \A s, t \in h : s[1] = t[1] => s = t}

optionExists(name) == \E t \in options : t[1] = name

optionVal(name, default) ==
    IF optionExists(name)
    THEN (CHOOSE t \in options : t[1] = name)[2]
    ELSE default

optionInt(name, default) == optionVal(name, default)

optionDouble(name, default) == optionVal(name, default)

NoAdapter == [name |-> "none"]

NoFrame == [entered |-> FALSE, minMatch |-> 0, minBlocks |-> 0,
            minSizeT |-> 0, minSizeQ |-> 0, minChainT |-> 0, minChainQ |-> 0,
            multiple |-> FALSE, noSerial |-> FALSE, chainTable |-> 0,
            preserveInput |-> FALSE]

InitGlobals == [bedPlus |-> 0, ends |-> 0, fudgeThick |-> FALSE,
                errorHelp |-> FALSE, multiple |-> FALSE, noSerial |-> FALSE,
                hasBin |-> FALSE, tabSep |-> FALSE, chainTable |-> 0]

InitLocals == [minSizeT |-> 0, minSizeQ |-> 0, minChainT |-> 0,
               minChainQ |-> 0, minMatch |-> LIFTOVER_MINMATCH,
               minBlocks |-> LIFTOVER_MINBLOCKS, preserveInput |-> FALSE]

InitIo == [chainHash |-> "null", mapLoads |-> 0,
           mapped |-> "unopened", unmapped |-> "unopened",
           mappedOpens |-> 0, unmappedOpens |-> 0,
           mappedCloses |-> 0, unmappedCloses |-> 0,
           adapterCalls |-> 0, adapterReturned |-> FALSE]

Running == [status |-> "running", msg |-> ""]

Init ==
    /\ pc = "optionInit"
    /\ options \in OptionHashes
    /\ argc \in {4, 5}
    /\ g = InitGlobals
    /\ m = InitLocals
    /\ lo = NoFrame
    /\ io = InitIo
    /\ adapter = NoAdapter
    /\ exit = Running
    /\ epc = "idle"
    /\ chainMap = <<>>
    /\ interval = [seqName |-> "", start |-> 0, end |-> 0]
    /\ config = [endsLength |-> 0]
    /\ candidates = {}
    /\ result = [kind |-> "None", regions |-> <<>>, tested |-> 0]

\* errAbort: print the message and exit(-1)
errAbort(msg) ==
    /\ pc' = "exit"
    /\ exit' = [status |-> "errAbort", msg |-> msg]

\* lines 194-199
ReadThresholds ==
    /\ pc = "optionInit"
    /\ m' = [m EXCEPT !.minMatch = optionDouble("minMatch", m.minMatch),
                      !.minBlocks = optionDouble("minBlocks", m.minBlocks)]
    /\ g' = [g EXCEPT !.fudgeThick = optionExists("fudgeThick"),
                      !.multiple = optionExists("multiple"),
                      !.noSerial = optionExists("noSerial")]
    /\ pc' = "checkMultiple"
    /\ UNCHANGED <<options, argc, lo, io, adapter, exit>>
    /\ UNCHANGED evars

\* variant: the test of line 200-202 without its last disjunct
MultipleOnlyViolated_NoSerialForgotten ==
    (~g.multiple) /\ (optionExists("minSizeT") \/ optionExists("minSizeQ") \/
                      optionExists("minChainT") \/ optionExists("minChainQ") \/
                      optionExists("chainTable"))

\* the condition of line 200-202
MultipleOnlyViolated ==
    (~g.multiple) /\ (optionExists("minSizeT") \/ optionExists("minSizeQ") \/
                      optionExists("minChainT") \/ optionExists("minChainQ") \/
                      optionExists("chainTable") \/ optionExists("noSerial"))

\* lines 200-203
CheckMultiple ==
    /\ pc = "checkMultiple"
    /\ IF MultipleOnlyViolated
       THEN errAbort("multipleOnly")
       ELSE pc' = "checkAlias" /\ UNCHANGED exit
    /\ UNCHANGED <<options, argc, g, m, lo, io, adapter>>
    /\ UNCHANGED evars

\* lines 204-205
CheckAlias ==
    /\ pc = "checkAlias"
    /\ IF optionExists("minSizeT") /\ optionExists("minChainT")
       THEN errAbort("aliasBoth")
       ELSE pc' = "readSizes" /\ UNCHANGED exit
    /\ UNCHANGED <<options, argc, g, m, lo, io, adapter>>
    /\ UNCHANGED evars

\* lines 206-209, in statement order
ResolveSizes(loc) ==
    LET l1 == [loc EXCEPT !.minSizeT = optionInt("minSizeT", loc.minChainT)]
        l2 == [l1 EXCEPT !.minSizeQ = optionInt("minSizeQ", l1.minSizeQ)]
        l3 == [l2 EXCEPT !.minChainT = optionInt("minChainT", l2.minChainT)]
    IN  [l3 EXCEPT !.minChainQ = optionInt("minChainQ", l3.minChainQ)]

ReadSizes ==
    /\ pc = "readSizes"
    /\ m' = ResolveSizes(m)
    /\ pc' = "checkBedPlus"
    /\ UNCHANGED <<options, argc, g, lo, io, adapter, exit>>
    /\ UNCHANGED evars

\* lines 210-215
CheckBedPlus ==
    /\ pc = "checkBedPlus"
    /\ IF optionExists("bedPlus")
       THEN LET bp == optionInt("bedPlus", g.bedPlus)
            IN  /\ g' = [g EXCEPT !.bedPlus = bp]
                /\ IF bp < 3 \/ bp > 15
                   THEN errAbort("bedPlusRange")
                   ELSE pc' = "readEnds" /\ UNCHANGED exit
       ELSE pc' = "readEnds" /\ UNCHANGED <<g, exit>>
    /\ UNCHANGED <<options, argc, m, lo, io, adapter>>
    /\ UNCHANGED evars

\* lines 216-220
ReadEnds ==
    /\ pc = "readEnds"
    /\ LET hb == optionExists("hasBin")
           ts == optionExists("tab") \/ optionExists("tabSep")
       IN  /\ g' = [g EXCEPT !.ends = optionInt("ends", g.ends),
                             !.hasBin = hb, !.tabSep = ts]
           /\ IF (hb \/ ts) /\ g.bedPlus = 0
              THEN errAbort("usage")
              ELSE pc' = "readRest" /\ UNCHANGED exit
    /\ UNCHANGED <<options, argc, m, lo, io, adapter>>
    /\ UNCHANGED evars

\* lines 221-227
ReadRest ==
    /\ pc = "readRest"
    /\ g' = [g EXCEPT !.chainTable = optionVal("chainTable", g.chainTable)]
    /\ IF optionExists("errorHelp")
       THEN errAbort("errorHelp") /\ UNCHANGED m
       ELSE /\ m' = [m EXCEPT !.preserveInput =
                        IF optionExists("preserveInput") THEN TRUE ELSE @]
            /\ IF argc # 5
               THEN errAbort("usage")
               ELSE pc' = "callLiftOver" /\ UNCHANGED exit
    /\ UNCHANGED <<options, argc, lo, io, adapter>>
    /\ UNCHANGED evars

\* lines 228-229: the arguments main hands to liftOver()
LiftOverArgs ==
    [entered |-> TRUE, minMatch |-> m.minMatch, minBlocks |-> m.minBlocks,
     minSizeT |-> m.minSizeT, minSizeQ |-> m.minSizeQ,
     minChainT |-> m.minChainT, minChainQ |-> m.minChainQ,
     multiple |-> g.multiple, noSerial |-> g.noSerial,
     chainTable |-> g.chainTable, preserveInput |-> m.preserveInput]

\* line 228 and line 112: enter liftOver(), newHash(0)
CallLiftOver ==
    /\ pc = "callLiftOver"
    /\ lo' = LiftOverArgs
    /\ io' = [io EXCEPT !.chainHash = "empty"]
    /\ pc' = "openMapped"
    /\ UNCHANGED <<options, argc, g, m, adapter, exit>>
    /\ UNCHANGED evars

\* line 113: mustOpen(newFile, "w") truncates the file or aborts
OpenMapped ==
    /\ pc = "openMapped"
    /\ \E ok \in BOOLEAN :
         IF ok
         THEN /\ io' = [io EXCEPT !.mapped = "open", !.mappedOpens = @ + 1]
              /\ pc' = "openUnmapped"
              /\ UNCHANGED exit
         ELSE errAbort("mustOpen") /\ UNCHANGED io
    /\ UNCHANGED <<options, argc, g, m, lo, adapter>>
    /\ UNCHANGED evars

\* line 114
OpenUnmapped ==
    /\ pc = "openUnmapped"
    /\ \E ok \in BOOLEAN :
         IF ok
         THEN /\ io' = [io EXCEPT !.unmapped = "open", !.unmappedOpens = @ + 1]
              /\ pc' = "checkOldFile"
              /\ UNCHANGED exit
         ELSE errAbort("mustOpen") /\ UNCHANGED io
    /\ UNCHANGED <<options, argc, g, m, lo, adapter>>
    /\ UNCHANGED evars

\* lines 117-118
CheckOldFile ==
    /\ pc = "checkOldFile"
    /\ \E fileExists \in BOOLEAN :
         IF ~fileExists
         THEN errAbort("cantFindFile")
         ELSE pc' = "readMap" /\ UNCHANGED exit
    /\ UNCHANGED <<options, argc, g, m, lo, io, adapter>>
    /\ UNCHANGED evars

\* variant: liftOver() goes on to the adapters without reading the chains
ReadMap_Skipped ==
    /\ pc = "readMap"
    /\ pc' = "dispatch"
    /\ UNCHANGED <<options, argc, g, m, lo, io, adapter, exit>>
    /\ UNCHANGED evars

\* lines 119-121: readLiftOverMap fills chainHash or aborts on a bad file
ReadMap ==
    /\ pc = "readMap"
    /\ \E ok \in BOOLEAN :
         IF ok
         THEN /\ io' = [io EXCEPT !.chainHash = "loaded", !.mapLoads = @ + 1]
              /\ pc' = "dispatch"
              /\ UNCHANGED exit
         ELSE errAbort("readLiftOverMap") /\ UNCHANGED io
    /\ UNCHANGED <<options, argc, g, m, lo, adapter>>
    /\ UNCHANGED evars

\* variant: the -bedPlus branch tested before the -ends branch
SelectAdapter_BedPlusFirst ==
    IF optionExists("gff") THEN "liftOverGff"
    ELSE IF optionExists("genePred") THEN "liftOverGenePred"
    ELSE IF optionExists("sample") THEN "liftOverSample"
    ELSE IF optionExists("pslT") THEN "liftOverPsl"
    ELSE IF optionExists("bedPlus") THEN "liftOverBedPlus"
    ELSE IF optionExists("ends") THEN "liftOverBedPlusEnds"
    ELSE IF optionExists("positions") THEN "liftOverPositions"
    ELSE "liftOverBed"

\* lines 122, 131, 138, 147, 157, 162, 167, 171: the else-if chain
SelectAdapter ==
    IF optionExists("gff") THEN "liftOverGff"
    ELSE IF optionExists("genePred") THEN "liftOverGenePred"
    ELSE IF optionExists("sample") THEN "liftOverSample"
    ELSE IF optionExists("pslT") THEN "liftOverPsl"
    ELSE IF optionExists("ends") THEN "liftOverBedPlusEnds"
    ELSE IF optionExists("bedPlus") THEN "liftOverBedPlus"
    ELSE IF optionExists("positions") THEN "liftOverPositions"
    ELSE "liftOverBed"

\* lines 125-128, 133-134, 140-143, 150-153: the checks inside a branch;
\* "" when the branch reaches its adapter call
BranchError(name) ==
    CASE name = "liftOverGff" ->
           IF lo.multiple THEN "gffMultiple"
           ELSE IF lo.chainTable # 0 THEN "gffChainTable" ELSE ""
      [] name = "liftOverGenePred" ->
           IF lo.chainTable # 0 THEN "genePredChainTable" ELSE ""
      [] name = "liftOverSample" ->
           IF lo.multiple THEN "sampleMultiple"
           ELSE IF lo.chainTable # 0 THEN "sampleChainTable" ELSE ""
      [] name = "liftOverPsl" ->
           IF lo.multiple THEN "pslTMultiple"
           ELSE IF lo.chainTable # 0 THEN "pslTChainTable" ELSE ""
      [] OTHER -> ""

\* the arguments of each adapter call (lines 129, 135, 144, 154, 158, 163,
\* 168, 172); chainHash, mapped and unmapped are passed to every one
AdapterCall(name) ==
    CASE name = "liftOverGff" ->
           [name |-> name, minMatch |-> lo.minMatch, minBlocks |-> lo.minBlocks,
            preserveInput |-> lo.preserveInput]
      [] name = "liftOverGenePred" ->
           [name |-> name, minMatch |-> lo.minMatch, minBlocks |-> lo.minBlocks,
            fudgeThick |-> g.fudgeThick, multiple |-> lo.multiple,
            preserveInput |-> lo.preserveInput]
      [] name = "liftOverSample" ->
           [name |-> name, minMatch |-> lo.minMatch, minBlocks |-> lo.minBlocks,
            fudgeThick |-> g.fudgeThick, preserveInput |-> lo.preserveInput]
      [] name = "liftOverPsl" ->
           [name |-> name, minMatch |-> lo.minMatch, minBlocks |-> lo.minBlocks,
            fudgeThick |-> g.fudgeThick]
      [] name = "liftOverBedPlusEnds" ->
           [name |-> name, minMatch |-> lo.minMatch, minBlocks |-> lo.minBlocks,
            minSizeT |-> lo.minSizeT, minSizeQ |-> lo.minSizeQ,
            minChainT |-> lo.minChainT, minChainQ |-> lo.minChainQ,
            fudgeThick |-> g.fudgeThick, multiple |-> lo.multiple,
            noSerial |-> lo.noSerial, chainTable |-> lo.chainTable,
            bedPlus |-> g.bedPlus, hasBin |-> g.hasBin, tabSep |-> g.tabSep,
            ends |-> g.ends, preserveInput |-> lo.preserveInput]
      [] name = "liftOverBedPlus" ->
           [name |-> name, minMatch |-> lo.minMatch, minBlocks |-> lo.minBlocks,
            minSizeT |-> lo.minSizeT, minSizeQ |-> lo.minSizeQ,
            minChainT |-> lo.minChainT, minChainQ |-> lo.minChainQ,
            fudgeThick |-> g.fudgeThick, multiple |-> lo.multiple,
            noSerial |-> lo.noSerial, chainTable |-> lo.chainTable,
            bedPlus |-> g.bedPlus, hasBin |-> g.hasBin, tabSep |-> g.tabSep,
            preserveInput |-> lo.preserveInput]
      [] name = "liftOverPositions" ->
           [name |-> name, minMatch |-> lo.minMatch, minBlocks |-> lo.minBlocks,
            minSizeT |-> lo.minSizeT, minSizeQ |-> lo.minSizeQ,
            minChainT |-> lo.minChainT, minChainQ |-> lo.minChainQ,
            fudgeThick |-> g.fudgeThick, multiple |-> lo.multiple,
            chainTable |-> lo.chainTable]
      [] OTHER ->
           [name |-> name, minMatch |-> lo.minMatch, minBlocks |-> lo.minBlocks,
            minSizeT |-> lo.minSizeT, minSizeQ |-> lo.minSizeQ,
            minChainT |-> lo.minChainT, minChainQ |-> lo.minChainQ,
            fudgeThick |-> g.fudgeThick, multiple |-> lo.multiple,
            noSerial |-> lo.noSerial, chainTable |-> lo.chainTable,
            preserveInput |-> lo.preserveInput]

\* lines 122-174: take one branch, abort in it or call its adapter
Dispatch ==
    /\ pc = "dispatch"
    /\ LET name == SelectAdapter
       IN  IF BranchError(name) # ""
           THEN errAbort(BranchError(name)) /\ UNCHANGED <<io, adapter>>
           ELSE /\ adapter' = AdapterCall(name)
                /\ io' = [io EXCEPT !.adapterCalls = @ + 1]
                /\ pc' = "inAdapter"
                /\ UNCHANGED exit
    /\ UNCHANGED <<options, argc, g, m, lo>>
    /\ UNCHANGED evars

\* the adapter returns to liftOver()
AdapterReturn ==
    /\ pc = "inAdapter"
    /\ io' = [io EXCEPT !.adapterReturned = TRUE]
    /\ pc' = "closeFiles"
    /\ UNCHANGED <<options, argc, g, m, lo, adapter, exit>>
    /\ UNCHANGED evars

\* the adapter calls errAbort on a malformed record
AdapterAbort ==
    /\ pc = "inAdapter"
    /\ errAbort("adapter")
    /\ UNCHANGED <<options, argc, g, m, lo, io, adapter>>
    /\ UNCHANGED evars

\* line 175
ClosesOutputs == ~optionExists("positions")

\* lines 175-181
CloseFiles ==
    /\ pc = "closeFiles"
    /\ IF ClosesOutputs
       THEN io' = [io EXCEPT !.mapped = "closed", !.mappedCloses = @ + 1,
                             !.unmapped = "closed", !.unmappedCloses = @ + 1]
       ELSE UNCHANGED io
    /\ pc' = "return"
    /\ UNCHANGED <<options, argc, g, m, lo, adapter, exit>>
    /\ UNCHANGED evars

\* line 230
MainReturn ==
    /\ pc = "return"
    /\ pc' = "exit"
    /\ exit' = [status |-> "returned", msg |-> ""]
    /\ UNCHANGED <<options, argc, g, m, lo, io, adapter>>
    /\ UNCHANGED evars

Next ==
    \/ ReadThresholds
    \/ CheckMultiple
    \/ CheckAlias
    \/ ReadSizes
    \/ CheckBedPlus
    \/ ReadEnds
    \/ ReadRest
    \/ CallLiftOver
    \/ OpenMapped
    \/ OpenUnmapped
    \/ CheckOldFile
    \/ ReadMap
    \/ Dispatch
    \/ AdapterReturn
    \/ AdapterAbort
    \/ CloseFiles
    \/ MainReturn

Spec == Init /\ [][Next]_vars

(***************************************************************************)
(* Part 2: the liftover engine.  Its code (liftOver.h, lib/liftOver.c) is  *)
(* not among the sources; it is modelled from its contract.  Coordinates   *)
(* are 0-based half-open; ratios are in hundredths.  Input intervals are   *)
(* non-empty.                                                              *)
(***************************************************************************)

Min(a, b) == IF a < b THEN a ELSE b

Max(a, b) == IF a > b THEN a ELSE b

ChainBlock(t, q, n) == [targetStart |-> t, queryStart |-> q, size |-> n]

\* Chain: targetStart/targetEnd are the first block's start and the last
\* block's end; likewise for the query
Chain(id, score, tName, qName, qSize, qStrand, blocks) ==
    LET last == blocks[Len(blocks)]
    IN  [id |-> id, score |-> score, targetName |-> tName,
         targetStart |-> blocks[1].targetStart,
         targetEnd |-> last.targetStart + last.size,
         queryName |-> qName, querySize |-> qSize,
         queryStart |-> blocks[1].queryStart,
         queryEnd |-> last.queryStart + last.size,
         queryStrand |-> qStrand, blocks |-> blocks]

\* the chain records a chain file may hold
ChainRecords ==
    { Chain(1, 100, "chr1", "new1", 40, "+",
            <<ChainBlock(0, 10, 3), ChainBlock(5, 13, 3)>>),
      Chain(2, 50, "chr1", "new1", 40, "-", <<ChainBlock(6, 2, 4)>>),
      Chain(3, 100, "chr1", "new1", 40, "+", <<ChainBlock(0, 20, 3)>>),
      Chain(4, 70, "chr2", "new1", 40, "+", <<ChainBlock(1, 30, 6)>>) }

\* the chains the chain table holds besides (pruned from the net)
ChainTableRecords ==
    { Chain(5, 30, "chr1", "new1", 40, "+", <<ChainBlock(1, 33, 4)>>) }

\* loadChainMap: group the chains by target sequence name
loadChainMap(chains) ==
    [n \in {c.targetName : c \in chains} |->
        {c \in chains : c.targetName = n}]

\* variant: one flat list of chains, the sequence name not compared
query_IgnoresName(map, seqName, start, end) ==
    {c \in UNION {map[n] : n \in DOMAIN map} :
        c.targetStart < end /\ start < c.targetEnd}

\* Chain Index query: every chain whose [targetStart, targetEnd) overlaps
\* [start, end); an unknown sequence name gives the empty result
query(map, seqName, start, end) ==
    IF seqName \notin DOMAIN map THEN {}
    ELSE {c \in map[seqName] : c.targetStart < end /\ start < c.targetEnd}

\* chain-table extension collaborator; a failed lookup is no extension data
extendChains(table, seqName, start, end) ==
    IF table # "ok" THEN {}
    ELSE {c \in ChainTableRecords :
            c.targetName = seqName /\ c.targetStart < end /\ start < c.targetEnd}

\* one block's fragment: the intersection carried to query coordinates,
\* flipped against querySize on the reverse strand
Fragment(chain, b, iv) ==
    LET is == Max(iv.start, b.targetStart)
        ie == Min(iv.end, b.targetStart + b.size)
        qs == b.queryStart + (is - b.targetStart)
        qe == qs + (ie - is)
    IN  [tStart |-> is, tEnd |-> ie,
         qStart |-> IF chain.queryStrand = "-" THEN chain.querySize - qe ELSE qs,
         qEnd |-> IF chain.queryStrand = "-" THEN chain.querySize - qs ELSE qe]

RECURSIVE FragmentsFrom(_, _, _)
FragmentsFrom(chain, iv, i) ==
    IF i > Len(chain.blocks) THEN <<>>
    ELSE LET b == chain.blocks[i]
             f == Fragment(chain, b, iv)
         IN  IF f.tStart < f.tEnd
             THEN <<f>> \o FragmentsFrom(chain, iv, i + 1)
             ELSE FragmentsFrom(chain, iv, i + 1)

RECURSIVE SumSizes(_)
SumSizes(frags) ==
    IF frags = <<>> THEN 0
    ELSE (frags[1].tEnd - frags[1].tStart) + SumSizes(Tail(frags))

\* Interval Transform: fragments in block order and coverage statistics
transform(chain, iv) ==
    LET frags == FragmentsFrom(chain, iv, 1)
    IN  [chain |-> chain, fragments |-> frags,
         matchedBases |-> SumSizes(frags), totalBases |-> iv.end - iv.start,
         matchedBlocks |-> Len(frags), totalBlocksTouched |-> Len(frags)]

\* ratio >= threshold passes; a zero denominator passes
PassesThresholds(t, cfg) ==
    /\ t.totalBases = 0 \/ t.matchedBases * 100 >= cfg.minMatch * t.totalBases
    /\ t.totalBlocksTouched = 0
         \/ t.matchedBlocks * 100 >= cfg.minBlocks * t.totalBlocksTouched

\* a candidate is accepted when it maps something and passes the thresholds
Accepted(chains, iv, cfg) ==
    {t \in {transform(c, iv) : c \in chains} :
        t.fragments # <<>> /\ PassesThresholds(t, cfg)}

Unmapped == [kind |-> "Unmapped", regions |-> <<>>, tested |-> 0]

MinOf(S) == CHOOSE x \in S : \A y \in S : x <= y

MaxOf(S) == CHOOSE x \in S : \A y \in S : x >= y

\* greatest matchedBases, then higher score, then lower chain id
BetterCandidate(a, b) ==
    \/ a.matchedBases > b.matchedBases
    \/ a.matchedBases = b.matchedBases /\ a.chain.score > b.chain.score
    \/ a.matchedBases = b.matchedBases /\ a.chain.score = b.chain.score
         /\ a.chain.id <= b.chain.id

\* step 3: the best candidate's envelope is the one region
SingleBest(accepted, iv) ==
    IF accepted = {} THEN Unmapped
    ELSE LET t == CHOOSE a \in accepted : \A b \in accepted : BetterCandidate(a, b)
             idx == 1 .. Len(t.fragments)
         IN  [kind |-> "Mapped",
              regions |-> <<[seqName |-> t.chain.queryName,
                             start |-> MinOf({t.fragments[i].qStart : i \in idx}),
                             end |-> MaxOf({t.fragments[i].qEnd : i \in idx}),
                             strand |-> t.chain.queryStrand,
                             sourceChainId |-> t.chain.id,
                             matchedBases |-> t.matchedBases,
                             matchedBlocks |-> t.matchedBlocks,
                             targetStart |-> t.fragments[1].tStart,
                             serial |-> 0]>>,
              tested |-> iv.end - iv.start]

\* the regions one accepted candidate contributes: one per fragment
RegionsOf(t) ==
    {[seqName |-> t.chain.queryName,
      start |-> t.fragments[i].qStart, end |-> t.fragments[i].qEnd,
      strand |-> t.chain.queryStrand, sourceChainId |-> t.chain.id,
      matchedBases |-> t.fragments[i].tEnd - t.fragments[i].tStart,
      matchedBlocks |-> 1,
      targetStart |-> t.fragments[i].tStart,
      serial |-> 0] : i \in 1 .. Len(t.fragments)}

\* target start, then chain id
RegionBefore(a, b) ==
    \/ a.targetStart < b.targetStart
    \/ a.targetStart = b.targetStart /\ a.sourceChainId <= b.sourceChainId

RECURSIVE SortRegions(_)
SortRegions(S) ==
    IF S = {} THEN <<>>
    ELSE LET r == CHOOSE a \in S : \A b \in S : RegionBefore(a, b)
         IN  <<r>> \o SortRegions(S \ {r})

\* variant: serial numbers starting at 0
AssignSerials_FromZero(regions) ==
    [i \in 1 .. Len(regions) |-> [regions[i] EXCEPT !.serial = i - 1]]

\* ascending serial numbers starting at 1
AssignSerials(regions) ==
    [i \in 1 .. Len(regions) |-> [regions[i] EXCEPT !.serial = i]]

\* step 4: chain-size filters, chain-table extension, order, serials
MultipleAssembled(chains, iv, cfg) ==
    LET all == chains \cup
               extendChains(cfg.chainTable, iv.seqName, iv.start, iv.end)
        kept == {t \in Accepted(all, iv, cfg) :
                    /\ t.chain.targetEnd - t.chain.targetStart >= cfg.minChainT
                    /\ t.chain.queryEnd - t.chain.queryStart >= cfg.minChainQ}
        regs == {r \in UNION {RegionsOf(t) : t \in kept} :
                    r.end - r.start >= cfg.minSizeQ}
        sorted == SortRegions(regs)
    IN  IF regs = {} THEN Unmapped
        ELSE [kind |-> "MappedMultiple",
              regions |-> IF cfg.noSerial THEN sorted ELSE AssignSerials(sorted),
              tested |-> iv.end - iv.start]

\* steps 2-4 on the candidates of one interval
Resolve(chains, iv, cfg) ==
    IF cfg.multiple
    THEN MultipleAssembled(chains, iv, cfg)
    ELSE SingleBest(Accepted(chains, iv, cfg), iv)

\* steps 1-4 on one interval
LiftOne(map, iv, cfg) ==
    LET chains == query(map, iv.seqName, iv.start, iv.end)
    IN  IF chains = {} THEN Unmapped ELSE Resolve(chains, iv, cfg)

\* step 5: the sub-intervals of length N at each end, or the whole interval
\* if it is shorter than 2N
EndIntervals(iv, n) ==
    IF iv.end - iv.start < 2 * n THEN <<iv>>
    ELSE <<[iv EXCEPT !.end = iv.start + n], [iv EXCEPT !.start = iv.end - n]>>

RECURSIVE SumMatched(_)
SumMatched(regions) ==
    IF regions = <<>> THEN 0
    ELSE regions[1].matchedBases + SumMatched(Tail(regions))

\* the envelope across both ends' results, over the N+N bases tested
Envelope(r1, r2, n) ==
    LET regs == r1.regions \o r2.regions
        idx == 1 .. Len(regs)
    IN  [kind |-> "Mapped",
         regions |-> <<[regs[1] EXCEPT
                          !.start = MinOf({regs[i].start : i \in idx}),
                          !.end = MaxOf({regs[i].end : i \in idx}),
                          !.matchedBases = SumMatched(regs),
                          !.matchedBlocks = Len(regs),
                          !.serial = 0]>>,
         tested |-> 2 * n]

\* variant: one mapped end stands whatever the interval's length
CombineEnds_OneEndStands(r1, r2, len, n) ==
    IF r1.kind # "Unmapped" /\ r2.kind # "Unmapped" THEN Envelope(r1, r2, n)
    ELSE IF r1.kind # "Unmapped" THEN r1
    ELSE IF r2.kind # "Unmapped" THEN r2
    ELSE Unmapped

\* step 5: recombine the two ends
CombineEnds(r1, r2, len, n) ==
    IF r1.kind # "Unmapped" /\ r2.kind # "Unmapped" THEN Envelope(r1, r2, n)
    ELSE IF r1.kind # "Unmapped" /\ len <= 2 * n THEN r1
    ELSE IF r2.kind # "Unmapped" /\ len <= 2 * n THEN r2
    ELSE Unmapped

LiftEnds(map, iv, cfg) ==
    LET subs == EndIntervals(iv, cfg.endsLength)
    IN  IF Len(subs) = 1 THEN LiftOne(map, subs[1], cfg)
        ELSE CombineEnds(LiftOne(map, subs[1], cfg), LiftOne(map, subs[2], cfg),
                         iv.end - iv.start, cfg.endsLength)

\* liftInterval(chainMap, interval, config)
liftInterval(map, iv, cfg) ==
    IF cfg.endsLength > 0 THEN LiftEnds(map, iv, cfg) ELSE LiftOne(map, iv, cfg)

Configs ==
    [minMatch : {50, 100}, minBlocks : {100}, multiple : BOOLEAN,
     minChainT : {0, 6}, minChainQ : {0}, minSizeQ : {0, 2},
     endsLength : {0, 2}, noSerial : BOOLEAN, chainTable : {"none", "ok"}]

Intervals ==
    {iv \in [seqName : {"chr1", "chr2", "chrUn"},
             start : 0 .. MaxCoord, end : 0 .. MaxCoord] : iv.start < iv.end}

ChainFiles == {S \in SUBSET ChainRecords : Cardinality(S) <= MaxChains}

InitEngine ==
    /\ pc = "idle"
    /\ options = {}
    /\ argc = 5
    /\ g = InitGlobals
    /\ m = InitLocals
    /\ lo = NoFrame
    /\ io = InitIo
    /\ adapter = NoAdapter
    /\ exit = Running
    /\ epc = "Start"
    /\ chainMap \in {loadChainMap(S) : S \in ChainFiles}
    /\ interval \in Intervals
    /\ config \in Configs
    /\ candidates = {}
    /\ result = [kind |-> "None", regions |-> <<>>, tested |-> 0]

EpcOf(r) ==
    CASE r.kind = "Mapped" -> "SingleBest"
      [] r.kind = "MappedMultiple" -> "MultipleAssembled"
      [] OTHER -> "Unmapped"

\* step 1: query the index; empty -> Unmapped
StartQuery ==
    /\ epc = "Start"
    /\ config.endsLength = 0
    /\ LET chains == query(chainMap, interval.seqName, interval.start, interval.end)
       IN  IF chains = {}
           THEN epc' = "Unmapped" /\ result' = Unmapped /\ UNCHANGED candidates
           ELSE epc' = "CandidatesFound" /\ candidates' = chains
                /\ UNCHANGED result
    /\ UNCHANGED <<chainMap, interval, config>>
    /\ UNCHANGED dvars

\* steps 2-4
ResolveCandidates ==
    /\ epc = "CandidatesFound"
    /\ result' = Resolve(candidates, interval, config)
    /\ epc' = EpcOf(result')
    /\ UNCHANGED <<chainMap, interval, config, candidates>>
    /\ UNCHANGED dvars

\* step 5
StartEnds ==
    /\ epc = "Start"
    /\ config.endsLength > 0
    /\ result' = LiftEnds(chainMap, interval, config)
    /\ epc' = EpcOf(result')
    /\ UNCHANGED <<chainMap, interval, config, candidates>>
    /\ UNCHANGED dvars

NextEngine ==
    \/ StartQuery
    \/ ResolveCandidates
    \/ StartEnds

SpecEngine == InitEngine /\ [][NextEngine]_vars

(***************************************************************************)
(* Properties of the dispatcher (checked under Spec)                       *)
(***************************************************************************)

\* nothing of liftOver() has happened: no chain map, no output file opened,
\* no adapter called
NothingProcessed ==
    /\ ~lo.entered
    /\ io.chainHash = "null" /\ io.mapLoads = 0
    /\ io.mappedOpens = 0 /\ io.unmappedOpens = 0
    /\ io.adapterCalls = 0 /\ adapter = NoAdapter

MultipleOnlyCase ==
    /\ ~optionExists("multiple")
    /\ \E n \in {"minSizeT", "minSizeQ", "minChainT", "minChainQ",
                 "chainTable", "noSerial"} : optionExists(n)

\* C1: without -multiple, any of -minSizeT, -minSizeQ, -minChainT,
\* -minChainQ, -chainTable, -noSerial ends the run in the fatal error of
\* line 203 before the chain map is read, an output file is opened or an
\* adapter is called.
C1_MultipleOnlyIsFatal ==
    MultipleOnlyCase =>
        /\ NothingProcessed
        /\ pc \in {"optionInit", "checkMultiple", "exit"}
        /\ pc = "exit" => exit = [status |-> "errAbort", msg |-> "multipleOnly"]

C1_Witness ==
    /\ MultipleOnlyCase
    /\ optionExists("noSerial")
    /\ pc = "exit"
    /\ exit.msg = "multipleOnly"

RatioOutOfRange ==
    \/ optionDouble("minMatch", LIFTOVER_MINMATCH) < 0
    \/ optionDouble("minMatch", LIFTOVER_MINMATCH) > 100
    \/ optionDouble("minBlocks", LIFTOVER_MINBLOCKS) < 0
    \/ optionDouble("minBlocks", LIFTOVER_MINBLOCKS) > 100

\* C2: a minMatch or minBlocks outside [0,1] stops the run before anything
\* is processed, so liftOver() is never entered with a ratio outside [0,1].
C2_RatioRangeChecked ==
    /\ RatioOutOfRange => NothingProcessed
    /\ lo.entered => /\ 0 <= lo.minMatch /\ lo.minMatch <= 100
                     /\ 0 <= lo.minBlocks /\ lo.minBlocks <= 100

\* C3: given as -minSizeT=N or as -minChainT=N, the minimum target chain
\* size reaches liftOver() and the adapter as minChainT = N.
C3_AliasResolvesToMinChainT ==
    \A name \in {"minSizeT", "minChainT"} :
        optionExists(name) =>
            /\ lo.entered => lo.minChainT = optionInt(name, 0)
            /\ "minChainT" \in DOMAIN adapter =>
                   adapter.minChainT = optionInt(name, 0)

\* C4: the chain map is read exactly once, before any adapter is called,
\* and from then on liftOver() leaves it as loaded.
C4_ChainMapBuiltOnce ==
    /\ io.mapLoads <= 1
    /\ io.adapterCalls > 0 => io.mapLoads = 1 /\ io.chainHash = "loaded"
    /\ pc \in {"dispatch", "inAdapter", "closeFiles", "return"} =>
           io.mapLoads = 1 /\ io.chainHash = "loaded"
    /\ exit.status = "returned" => io.mapLoads = 1 /\ io.chainHash = "loaded"

C4_Witness ==
    /\ io.adapterCalls = 1
    /\ io.mapLoads = 1
    /\ exit.status = "returned"

FormatConflictCase ==
    \/ /\ optionExists("multiple")
       /\ optionExists("gff") \/ optionExists("sample") \/ optionExists("pslT")
    \/ /\ optionExists("chainTable")
       /\ \/ optionExists("gff") \/ optionExists("genePred")
          \/ optionExists("sample") \/ optionExists("pslT")

\* C5: -multiple with -gff, -sample or -pslT, and -chainTable with -gff,
\* -genePred, -sample or -pslT, abort before the chain map is loaded,
\* before the output files are opened and before any record is lifted.
C5_ConflictsFatalBeforeProcessing ==
    FormatConflictCase =>
        /\ io.mapLoads = 0
        /\ io.mappedOpens = 0 /\ io.unmappedOpens = 0
        /\ io.adapterCalls = 0
        /\ exit.status # "returned"

\* C6: with a resolved ends value of 0 (-ends absent or -ends=0) the ends
\* adapter is not the one selected; it is selected only for a positive value.
C6_EndsZeroDisabled ==
    adapter.name = "liftOverBedPlusEnds" => optionInt("ends", 0) > 0

FormatPriority ==
    <<"gff", "genePred", "sample", "pslT", "ends", "bedPlus", "positions">>

AdapterOfFormat(opt) ==
    CASE opt = "gff" -> "liftOverGff"
      [] opt = "genePred" -> "liftOverGenePred"
      [] opt = "sample" -> "liftOverSample"
      [] opt = "pslT" -> "liftOverPsl"
      [] opt = "ends" -> "liftOverBedPlusEnds"
      [] opt = "bedPlus" -> "liftOverBedPlus"
      [] opt = "positions" -> "liftOverPositions"
      [] OTHER -> "liftOverBed"

\* the adapter of the highest-priority format option given
PriorityAdapter ==
    LET given == {i \in 1 .. Len(FormatPriority) : optionExists(FormatPriority[i])}
    IN  IF given = {} THEN "liftOverBed"
        ELSE AdapterOfFormat(FormatPriority[CHOOSE i \in given : \A j \in given : i <= j])

AtMostOneAdapterByPriority ==
    /\ io.adapterCalls <= 1
    /\ io.adapterCalls = 0 <=> adapter = NoAdapter
    /\ io.adapterCalls = 1 => adapter.name = PriorityAdapter

ClosedBothOnce ==
    /\ io.mappedCloses = 1 /\ io.unmappedCloses = 1
    /\ io.mapped = "closed" /\ io.unmapped = "closed"

ClosedNeither ==
    /\ io.mappedCloses = 0 /\ io.unmappedCloses = 0
    /\ io.mapped = "open" /\ io.unmapped = "open"

Terminal == epc \in {"SingleBest", "MultipleAssembled", "Unmapped"}

\* no chain of the map lies on the interval's sequence and overlaps it
NoOverlappingChain ==
    \A n \in DOMAIN chainMap : \A c \in chainMap[n] :
        ~(c.targetName = interval.seqName
          /\ c.targetStart < interval.end /\ interval.start < c.targetEnd)

\* C7: every liftInterval call ends in Mapped, MappedMultiple or Unmapped and
\* in no other state; an interval whose sequence is not in the chain map, or
\* that no chain overlaps, ends Unmapped straight from Start.
C7_ThreeOutcomes ==
    /\ epc \in {"Start", "CandidatesFound", "SingleBest", "MultipleAssembled",
                "Unmapped"}
    /\ epc \in {"Start", "CandidatesFound"} => result.kind = "None"
    /\ epc = "SingleBest" => result.kind = "Mapped" /\ Len(result.regions) = 1
    /\ epc = "MultipleAssembled" =>
           result.kind = "MappedMultiple" /\ Len(result.regions) >= 1
    /\ epc = "Unmapped" => result.kind = "Unmapped" /\ result.regions = <<>>
    /\ NoOverlappingChain => epc \in {"Start", "Unmapped"}

C7_Witness ==
    /\ epc = "Unmapped"
    /\ interval.seqName \notin DOMAIN chainMap
    /\ DOMAIN chainMap # {}
    /\ result.kind = "Unmapped"

EndMaps(i) ==
    LiftOne(chainMap, EndIntervals(interval, config.endsLength)[i], config).kind
        # "Unmapped"

\* ends mode on an interval longer than 2N of which exactly one end maps
OneEndOfLongInterval ==
    /\ Terminal
    /\ config.endsLength > 0
    /\ interval.end - interval.start > 2 * config.endsLength
    /\ EndMaps(1) # EndMaps(2)

GapSpanningCase ==
    /\ config.multiple /\ config.endsLength = 0
    /\ config.chainTable = "none" /\ config.minSizeQ = 0
    /\ interval.seqName \in DOMAIN chainMap
    /\ \E c \in chainMap[interval.seqName] :
         /\ chainMap[interval.seqName] = {c}
         /\ Len(c.blocks) = 2
         /\ interval.start < c.blocks[1].targetStart + c.blocks[1].size
         /\ c.blocks[2].targetStart < interval.end

=============================================================================
